---- MODULE Spec2Model ----
(***************************************************************************)
(* discord-chat-cleaner: the transport client (Crawler._request), the      *)
(* search paginator (Crawler.search_messages_by_author_id), the mutation   *)
(* driver (modify_/delete_channel_message_by_message_id) and the run       *)
(* orchestrator (main), run against a remote service that holds a finite   *)
(* set of the author's messages and answers every HTTP attempt with a      *)
(* status of its choice.                                                   *)
(***************************************************************************)
EXTENDS Integers, Sequences, FiniteSets, TLC

\* ---------------------------------------------------------------- bounds
MaxId == 3          \* message IDs are 1..MaxId
MaxPage == 2        \* the server's page size is 1..MaxPage

Ids == 1..MaxId

\* ------------------------------------------------------- program constants
RATE_LIMITED_RETRY_OneMore == 5 + 1

RATE_LIMITED_RETRY == 5
HTTP_CODE_MESSAGES == {400, 401, 403, 404, 405, 502}

\* ------------------------------------------------------------ environment
\* Statuses the remote service answers with, and the retry_after values (ms)
\* a 429 response body carries.
Statuses == {200, 403, 429, 500, 502}
RetryAfters == {200, 1000}
ReplaceModes == {"none", "fixed", "random"}
SortOrders == {"desc", "asc"}

VARIABLES
    \* remote service
    server_messages,        \* IDs of the author's messages the server holds
    initial_messages,       \* the same, when the run started
    sort_order,             \* order of the hits within the search index
    page_size,              \* hits per search page
    \* arguments of the run
    arg_oldest, arg_newest, \* --oldest-message-id / --newest-message-id
    replace_before_delete,
    \* search_messages_by_author_id (generator frame)
    offset, gen_total_results_size, oldest_message_id, newest_message_id,
    \* main (orchestrator frame)
    main_newest_message_id, total_results_size, failed_count,
    messages, idx, message, summary,
    \* _request (transport frame)
    req, i, attempts, res, ret, before, critical,
    \* control
    pc,
    \* history of the run
    yields, calls

server == <<server_messages, initial_messages, sort_order, page_size>>
args == <<arg_oldest, arg_newest, replace_before_delete>>
genv == <<offset, gen_total_results_size, oldest_message_id, newest_message_id>>
mainv == <<main_newest_message_id, total_results_size, failed_count,
           messages, idx, message, summary>>
transport == <<req, i, attempts, res, ret, before, critical>>
hist == <<yields, calls>>
vars == <<server, args, genv, mainv, transport, pc, hist>>

NoReq == [kind |-> "none", id |-> 0]
NoRes == [status |-> 0, retry_after |-> 0, page |-> <<>>]
NoSummary == [kind |-> "none", deleted |-> 0, failed |-> 0, oldest |-> 0, newest |-> 0]

\* ------------------------------------------------------------ pure helpers
RECURSIVE SortDesc(_)
SortDesc(S) ==
    IF S = {} THEN <<>>
    ELSE LET m == CHOOSE x \in S : \A y \in S : y <= x
         IN <<m>> \o SortDesc(S \ {m})

RECURSIVE SortAsc(_)
SortAsc(S) ==
    IF S = {} THEN <<>>
    ELSE LET m == CHOOSE x \in S : \A y \in S : x <= y
         IN <<m>> \o SortAsc(S \ {m})

\* The search index of the author's messages, and the page of hits at an offset.
SearchIndex(S, order) == IF order = "desc" THEN SortDesc(S) ELSE SortAsc(S)

SearchPage(S, order, off, size) ==
    LET all == SearchIndex(S, order)
    IN SubSeq(all, off + 1, IF off + size < Len(all) THEN off + size ELSE Len(all))

\* _request, lines 46-53: classification of a response status.
IsTerminal_ListedOnly(status) == status \in HTTP_CODE_MESSAGES

IsTerminal(status) ==
    status \in HTTP_CODE_MESSAGES \/ (500 <= status /\ status < 600)

IsRateLimited(status) == status = 429

\* _request, line 56: time.sleep(retry_after / 1000), in milliseconds.
RateLimitSleepMs_WholeSeconds(retry_after) == (retry_after \div 1000) * 1000

RateLimitSleepMs(retry_after) == retry_after

\* search_messages_by_author_id, line 85: the stop condition.
StopCondition_AnyHitBelow(page, oldest) ==
    Len(page) = 0 \/ \A j \in 1..Len(page) : page[j] < oldest

StopCondition_LastHitBelow(page, oldest) ==
    Len(page) = 0 \/ page[Len(page)] < oldest

StopCondition_FloorOnly(page, oldest) == Len(page) > 0 /\ page[1] < oldest

StopCondition(page, oldest) == Len(page) = 0 \/ page[1] < oldest

\* search_messages_by_author_id, lines 88-89: the range filter.
InRange_Either(id, oldest, newest) == oldest <= id \/ id <= newest

InRange(id, oldest, newest) == oldest <= id /\ id <= newest

FilterMessages_NoUpperBound(page, oldest, newest) ==
    SelectSeq(page, LAMBDA id : oldest <= id)

FilterMessages(page, oldest, newest) ==
    SelectSeq(page, LAMBDA id : InRange(id, oldest, newest))

\* search_messages_by_author_id, line 97: the tightened upper bound.
NextNewest_LastIncluded(batch) == batch[Len(batch)]

NextNewest(batch) == batch[Len(batch)] - 1

\* search_messages_by_author_id, line 92: the offset after a page that the
\* filter emptied.
NextOffset_Stuck(off, unfiltered_results_size) == off

NextOffset_ByOne(off, unfiltered_results_size) == off + 1

NextOffset(off, unfiltered_results_size) == off + unfiltered_results_size

\* search_messages_by_author_id, line 95: the cumulative count.
NextTotal_BatchOnly(total, filtered_results_size) == filtered_results_size

NextTotal(total, filtered_results_size) == total + filtered_results_size

\* main, line 186: whether the delete is attempted after the optional replace.
ShouldDelete_Always(is_success) == TRUE

ShouldDelete(is_success) == is_success

\* modify_/delete_channel_message_by_message_id: the value returned for an
\* outcome of _request ("res": a response, "None": fell out of the retry loop,
\* "raise": DiscordApiError).
CallResult_AlwaysTrue(outcome) == TRUE

CallResult(outcome) == outcome # "raise"

\* main, lines 186-190: the failure count after one message.
CountFailure_Inverted(fc, is_success) == IF is_success THEN fc + 1 ELSE fc

CountFailure_Never(fc, is_success) == fc

CountFailure(fc, is_success) == IF is_success THEN fc ELSE fc + 1

\* main, lines 175-177: the first message seen sets the summary's newest ID.
FirstSeen_Latest(current, id) == id

FirstSeen(current, id) == IF current = 0 THEN id ELSE current

\* ------------------------------------------------------------------ events
\* The delays of a call: `before` holds those taken since the call's previous
\* HTTP attempt (or since its entry), that is, those that precede the next one.
EvDefaultSleep == [e |-> "default_sleep", ms |-> 0]
EvSleep(ms) == [e |-> "sleep", ms |-> ms]

\* ------------------------------------------------------------------- Init
Init ==
    /\ server_messages \in SUBSET Ids
    /\ initial_messages = server_messages
    /\ sort_order \in SortOrders
    /\ page_size \in 1..MaxPage
    /\ arg_oldest \in Ids
    /\ arg_newest \in Ids
    /\ replace_before_delete \in ReplaceModes
    /\ offset = 0
    /\ gen_total_results_size = 0
    /\ oldest_message_id = arg_oldest
    /\ newest_message_id = arg_newest
    /\ main_newest_message_id = 0
    /\ total_results_size = 0
    /\ failed_count = 0
    /\ messages = <<>>
    /\ idx = 0
    /\ message = 0
    /\ summary = NoSummary
    /\ req = NoReq
    /\ i = 0
    /\ res = NoRes
    /\ ret = "none"
    /\ attempts = 0
    /\ before = <<>>
    /\ critical = FALSE
    /\ pc = "Idle"
    /\ yields = <<>>
    /\ calls = <<>>

\* --------------------------------------------------------------- transport
\* _request, lines 42-44: entry of a call: default_sleep, then the retry loop.
BeginRequest(kind, id) ==
    /\ req' = [kind |-> kind, id |-> id]
    /\ i' = 0
    /\ res' = NoRes
    /\ ret' = "none"
    /\ attempts' = 0
    /\ before' = <<EvDefaultSleep>>
    /\ critical' = FALSE
    /\ pc' = "http"

\* The responses the server may give to the request in flight.
ResponseTo(s, ra) ==
    [status |-> s, retry_after |-> ra,
     page |-> IF req.kind = "search" /\ ~IsTerminal(s) /\ ~IsRateLimited(s)
              THEN SearchPage(server_messages, sort_order, offset, page_size)
              ELSE <<>>]

Responses ==
    {ResponseTo(s, 0) : s \in Statuses \ {429}}
    \cup {ResponseTo(429, ra) : ra \in RetryAfters}

\* The server's side of a successful DELETE.
ServerApply(S, r, status) ==
    IF r.kind = "delete" /\ 200 <= status /\ status < 300 THEN S \ {r.id} ELSE S

\* _request, lines 44-60: one iteration of the retry loop.
HttpAttempt ==
    /\ pc = "http"
    /\ i < RATE_LIMITED_RETRY
    /\ \E r \in Responses :
        /\ res' = r
        /\ attempts' = attempts + 1
        /\ IF IsTerminal(r.status)
           THEN /\ ret' = "raise"
                /\ pc' = "returned"
                /\ UNCHANGED <<i, critical>>
                /\ before' = <<>>
           ELSE IF IsRateLimited(r.status)
           THEN /\ i' = i + 1
                /\ before' = <<EvSleep(RateLimitSleepMs(r.retry_after))>>
                /\ IF i + 1 < RATE_LIMITED_RETRY
                   THEN /\ ret' = "none"
                        /\ pc' = "http"
                        /\ UNCHANGED critical
                   ELSE \* the loop is exhausted: line 60, and None is returned
                        /\ critical' = TRUE
                        /\ ret' = "None"
                        /\ pc' = "returned"
           ELSE /\ ret' = "res"
                /\ pc' = "returned"
                /\ UNCHANGED <<i, critical>>
                /\ before' = <<>>
        /\ server_messages' = ServerApply(server_messages, req, r.status)
    /\ UNCHANGED <<req, initial_messages, sort_order, page_size, args, genv, mainv, hist>>

\* ------------------------------------------------------------ orchestrator
\* main, lines 194-206: the paginator is exhausted; the summary is logged.
Finish ==
    /\ pc' = "Completed"
    /\ summary' = IF total_results_size = 0
                  THEN [NoSummary EXCEPT !.kind = "no_messages"]
                  ELSE [kind |-> "done",
                        deleted |-> total_results_size - failed_count,
                        failed |-> failed_count,
                        oldest |-> message,
                        newest |-> main_newest_message_id]

\* main, lines 207-210: an exception reaches the orchestrator.
Abort ==
    /\ pc' = "Aborted"
    /\ summary' = [NoSummary EXCEPT !.kind = "aborted"]

\* main, lines 174-187: the k-th message of a batch, up to its first request.
ProcessMessage_DeleteFirst(batch, k) ==
    /\ idx' = k
    /\ message' = batch[k]
    /\ main_newest_message_id' = FirstSeen(main_newest_message_id, batch[k])
    /\ BeginRequest("delete", batch[k])

ProcessMessage(batch, k) ==
    /\ idx' = k
    /\ message' = batch[k]
    /\ main_newest_message_id' = FirstSeen(main_newest_message_id, batch[k])
    /\ BeginRequest(IF replace_before_delete # "none" THEN "patch" ELSE "delete",
                    batch[k])

\* main, line 161-173, and the paginator's lines 65-74: the run starts and the
\* first pull of the generator issues the first search request.
Start ==
    /\ pc = "Idle"
    /\ BeginRequest("search", 0)
    /\ UNCHANGED <<server, args, genv, mainv, hist>>

\* search_messages_by_author_id, lines 80-96 (and main's lines 173-187 after a
\* yield, lines 194-210 after the end of the sequence or an exception).
SearchReturn ==
    /\ pc = "returned"
    /\ req.kind = "search"
    /\ IF ret # "res"
       THEN \* DiscordApiError, or res is None and res.json() raises
            /\ Abort
            /\ UNCHANGED <<genv, main_newest_message_id, total_results_size,
                           failed_count, messages, idx, message, transport, hist>>
       ELSE IF StopCondition(res.page, oldest_message_id)
       THEN /\ Finish
            /\ UNCHANGED <<genv, main_newest_message_id, total_results_size,
                           failed_count, messages, idx, message, transport, hist>>
       ELSE LET filtered == FilterMessages(res.page, oldest_message_id, newest_message_id)
            IN IF Len(filtered) = 0
               THEN /\ offset' = NextOffset(offset, Len(res.page))
                    /\ BeginRequest("search", 0)
                    /\ UNCHANGED <<gen_total_results_size, oldest_message_id,
                                   newest_message_id, mainv, hist>>
               ELSE /\ gen_total_results_size' = NextTotal(gen_total_results_size, Len(filtered))
                    /\ yields' = Append(yields, [total |-> gen_total_results_size',
                                                 batch |-> filtered])
                    /\ total_results_size' = gen_total_results_size'
                    /\ messages' = filtered
                    /\ ProcessMessage(filtered, 1)
                    /\ UNCHANGED <<offset, oldest_message_id, newest_message_id,
                                   failed_count, summary, calls>>
    /\ UNCHANGED <<server, args>>

\* main, lines 174 and 192, and the paginator's line 97: after a message, the
\* next message of the batch, or the next pull of the generator.
AfterMessage ==
    IF idx < Len(messages)
    THEN /\ ProcessMessage(messages, idx + 1)
         /\ UNCHANGED <<genv, total_results_size, messages, summary>>
    ELSE /\ newest_message_id' = NextNewest(messages)
         /\ BeginRequest("search", 0)
         /\ UNCHANGED <<offset, gen_total_results_size, oldest_message_id,
                        main_newest_message_id, total_results_size, messages, idx,
                        message, summary>>

\* modify_channel_message_by_message_id, lines 103-108, and main, lines 185-190.
ModifyReturn ==
    /\ pc = "returned"
    /\ req.kind = "patch"
    /\ LET is_success == CallResult(ret)
       IN /\ calls' = Append(calls, [op |-> "patch", id |-> req.id,
                                     ok |-> is_success])
          /\ failed_count' = CountFailure(failed_count, is_success)
          /\ IF ShouldDelete(is_success)
             THEN /\ BeginRequest("delete", message)
                  /\ UNCHANGED <<genv, main_newest_message_id, total_results_size,
                                 messages, idx, message, summary>>
             ELSE AfterMessage
    /\ UNCHANGED <<server, args, yields>>

\* delete_channel_message_by_message_id, lines 113-118, and main, lines 187-188.
DeleteReturn ==
    /\ pc = "returned"
    /\ req.kind = "delete"
    /\ LET deleted == CallResult(ret)
       IN /\ calls' = Append(calls, [op |-> "delete", id |-> req.id,
                                     ok |-> deleted])
          /\ failed_count' = CountFailure(failed_count, deleted)
          /\ AfterMessage
    /\ UNCHANGED <<server, args, yields>>

Next == Start \/ HttpAttempt \/ SearchReturn \/ ModifyReturn \/ DeleteReturn

Spec == Init /\ [][Next]_vars

\* The run is one sequential thread: it always takes its next step.
LiveSpec == Spec /\ WF_vars(Next)

\* ====================================================================
\* Properties
\* ====================================================================
Last(seq) == seq[Len(seq)]

\* A step that returns from modify_/delete_channel_message_by_message_id.
MutationReturns == Len(calls') = Len(calls) + 1

\* A step in which _request is entered for a new call.
RequestBegins == pc' = "http" /\ attempts' = 0

\* A step that makes one HTTP attempt.
AttemptMade == attempts' = attempts + 1

\* C1: every message of every batch the paginator yields has an ID in
\* [oldest_message_id, newest_message_id] as passed at call start, whatever
\* the order of the hits within the search pages.
C1_YieldedWithinInitialBounds ==
    /\ \A k \in 1..Len(yields) : \A j \in 1..Len(yields[k].batch) :
          arg_oldest <= yields[k].batch[j] /\ yields[k].batch[j] <= arg_newest
    /\ \A j \in 1..Len(messages) :
          arg_oldest <= messages[j] /\ messages[j] <= arg_newest

\* A second batch was yielded from a server that also holds a message above
\* the range.
C1_Witness ==
    /\ Len(yields) >= 2
    /\ \E id \in initial_messages : id > arg_newest

C3_CeilingExhaustionAborts ==
    [][(pc = "returned" /\ ret = "None") => (pc' = "Aborted" /\ calls' = calls)]_vars

\* C4: a _request call answered by k responses 429 (0 <= k <= 4) and then by
\* a status that is neither 429 nor terminal returns that response after
\* exactly k + 1 attempts; every 429 is followed by one sleep of the
\* retry_after it carries, and every attempt after the first is preceded by
\* exactly that sleep.
C4_RetryThenSuccess ==
    /\ []((pc = "returned" /\ ret = "res")
            => /\ attempts = i + 1
               /\ i <= 4
               /\ res.status # 429
               /\ res.status \notin {400, 401, 403, 404, 405, 502}
               /\ ~(500 <= res.status /\ res.status < 600)
               /\ ~critical)
    /\ []((pc \in {"http", "returned"} /\ res.status # 429 /\ attempts > 0) => pc = "returned")
    /\ [][(AttemptMade /\ res'.status = 429)
            => /\ i' = i + 1
               /\ res'.retry_after \in RetryAfters
               /\ before' = <<EvSleep(res'.retry_after)>>]_vars
    /\ [][(AttemptMade /\ attempts >= 1)
            => /\ res.status = 429
               /\ before = <<EvSleep(res.retry_after)>>
               /\ req' = req]_vars

\* A call returned a success response after four responses 429.
C4_Witness ==
    /\ pc = "returned" /\ ret = "res"
    /\ i = 4 /\ attempts = 5 /\ res.status = 200

\* C5: a _request call answered by 429 on every attempt makes exactly 5 HTTP
\* attempts and never a 6th, then logs the critical failure and returns no
\* response; the critical failure is logged in no other case.
C5_RetryCeiling ==
    /\ attempts <= 5
    /\ (pc = "returned" /\ i = attempts)
          => (attempts = 5 /\ critical /\ ret = "None" /\ res.status = 429)
    /\ (pc = "http" /\ attempts > 0) => (i = attempts /\ attempts < 5 /\ ~critical)
    /\ critical => (pc \in {"returned", "Aborted", "Completed"} /\ attempts = 5 /\ i = 5)
    /\ ret = "None" => critical

\* A call gave up after its fifth response 429.
C5_Witness ==
    pc = "returned" /\ attempts = 5 /\ i = 5 /\ critical /\ ret = "None"

\* The terminal statuses: line 23-31 and line 51.
C6_TerminalStatus(status) ==
    status \in {400, 401, 403, 404, 405, 502} \/ status \in 500..599

\* C6: a terminal HTTP error on a search-page request aborts the run, after
\* which nothing more happens; on a replace or delete request the call returns
\* failure, failed_count grows by exactly one, and the run goes on with the
\* next message of the batch or, after the last one, with the next search.
C6_TerminalErrorEffects ==
    /\ [][(pc = "returned" /\ C6_TerminalStatus(res.status) /\ req.kind = "search")
            => (pc' = "Aborted" /\ attempts' = attempts /\ calls' = calls
                /\ failed_count' = failed_count)]_vars
    /\ [][(pc = "returned" /\ C6_TerminalStatus(res.status) /\ req.kind \in {"patch", "delete"})
            => /\ Last(calls') = [op |-> req.kind, id |-> req.id, ok |-> FALSE]
               /\ Len(calls') = Len(calls) + 1
               /\ failed_count' = failed_count + 1
               /\ RequestBegins
               /\ IF idx < Len(messages)
                  THEN /\ req'.id = messages[idx + 1]
                       /\ req'.kind \in {"patch", "delete"}
                       /\ messages' = messages
                  ELSE req'.kind = "search"]_vars
    /\ [][pc = "Aborted" => UNCHANGED vars]_vars
    /\ [](C6_TerminalStatus(res.status) => pc \in {"returned", "Aborted"})

\* A delete failed with a terminal status, the run went on, and a later
\* search request was answered with a terminal status.
C6_Witness ==
    /\ pc = "Aborted"
    /\ C6_TerminalStatus(res.status)
    /\ failed_count >= 1
    /\ \E k \in 1..Len(calls) : calls[k].op = "delete" /\ ~calls[k].ok

\* C7: against a server whose set of the author's messages shrinks only by
\* the run's own deletes, and whatever each replace and delete returns, the
\* run reaches Completed or Aborted: the paginator stops after finitely many
\* search requests and batches.
C7_RunTerminates == <>(pc \in {"Completed", "Aborted"})

\* The run completed after a skipped page, two batches and a failed call.
C7_Witness ==
    /\ pc = "Completed"
    /\ offset > 0
    /\ Len(yields) >= 2
    /\ failed_count >= 1

\* C8: a search page with zero hits, or whose first hit is below
\* oldest_message_id, ends the sweep: no batch is yielded from it, no further
\* request is begun and nothing happens afterwards, even when later hits of
\* that page are inside the range.
C8_StopsAtFirstHitBelowFloor ==
    /\ [][(pc = "returned" /\ req.kind = "search" /\ ret = "res"
             /\ (Len(res.page) = 0 \/ res.page[1] < oldest_message_id))
            => /\ pc' = "Completed"
               /\ yields' = yields /\ calls' = calls
               /\ attempts' = attempts /\ req' = req
               /\ genv' = genv]_vars
    /\ [][pc = "Completed" => UNCHANGED vars]_vars

\* The sweep ended on a page whose first hit is below the floor while a later
\* hit of that page is inside the range.
C8_Witness ==
    /\ pc = "Completed"
    /\ Len(res.page) >= 2
    /\ res.page[1] < oldest_message_id
    /\ InRange(res.page[2], oldest_message_id, newest_message_id)

RECURSIVE C9_SumOfBatchSizes(_, _)
C9_SumOfBatchSizes(ys, k) ==
    IF k = 0 THEN 0 ELSE C9_SumOfBatchSizes(ys, k - 1) + Len(ys[k].batch)

\* C9: the cumulative count of every yield equals the sum of the sizes of
\* the batches yielded so far, that one included, and never decreases from
\* one yield to the next; skipped pages add nothing.
C9_CumulativeCount ==
    /\ \A k \in 1..Len(yields) :
          /\ yields[k].total = C9_SumOfBatchSizes(yields, k)
          /\ k > 1 => yields[k].total >= yields[k - 1].total
          /\ Len(yields[k].batch) >= 1
    /\ gen_total_results_size = C9_SumOfBatchSizes(yields, Len(yields))
    /\ total_results_size = gen_total_results_size

\* Three batches were yielded after a skipped page.
C9_Witness ==
    /\ Len(yields) >= 3
    /\ offset > 0

C10_InRangeIds == {id \in initial_messages : arg_oldest <= id /\ id <= arg_newest}

C10_DeletedIds == [k \in 1..Len(calls) |-> calls[k].id]

\* C10: with replace mode none, hits in descending order and every delete
\* call returning success, a completed run has made exactly one delete call
\* per message of the author in [oldest, newest], in descending order of ID,
\* and no replace call; total_results_size is the number of those messages,
\* failed_count is 0, and the summary's range runs from the smallest to the
\* largest of those IDs.
C10_EndToEndDeleteAll ==
    (/\ pc = "Completed"
     /\ replace_before_delete = "none"
     /\ sort_order = "desc"
     /\ arg_oldest <= arg_newest
     /\ \A k \in 1..Len(calls) : calls[k].ok)
    => /\ \A k \in 1..Len(calls) : calls[k].op = "delete"
       /\ C10_DeletedIds = SortDesc(C10_InRangeIds)
       /\ total_results_size = Cardinality(C10_InRangeIds)
       /\ failed_count = 0
       /\ IF C10_InRangeIds = {}
          THEN summary.kind = "no_messages"
          ELSE /\ summary.kind = "done"
               /\ summary.deleted = Cardinality(C10_InRangeIds)
               /\ summary.failed = 0
               /\ \A id \in C10_InRangeIds : summary.oldest <= id /\ id <= summary.newest
               /\ summary.oldest \in C10_InRangeIds
               /\ summary.newest \in C10_InRangeIds

\* The scenario of three messages: all in range, deleted newest first.
C10_Witness ==
    /\ pc = "Completed"
    /\ replace_before_delete = "none"
    /\ sort_order = "desc"
    /\ initial_messages = {1, 2, 3}
    /\ arg_oldest = 1 /\ arg_newest = 3
    /\ calls = <<[op |-> "delete", id |-> 3, ok |-> TRUE],
                 [op |-> "delete", id |-> 2, ok |-> TRUE],
                 [op |-> "delete", id |-> 1, ok |-> TRUE]>>
    /\ server_messages = {}
    /\ summary = [kind |-> "done", deleted |-> 3, failed |-> 0, oldest |-> 1, newest |-> 3]

\* The IDs of the author's messages inside the bounds passed at call start.
InRangeAtStart == {id \in initial_messages : arg_oldest <= id /\ id <= arg_newest}

RECURSIVE Flatten(_, _)
Flatten(ys, k) == IF k = 0 THEN <<>> ELSE Flatten(ys, k - 1) \o ys[k].batch

\* The IDs of the yielded messages, in the order of their yield.
YieldedIds == Flatten(yields, Len(yields))

\* C11: with hits in descending order, a run that completes has yielded
\* every message of the author with ID in [oldest_message_id,
\* newest_message_id] and has made a replace or delete call for it, whatever
\* the page size, the messages above the range and the earlier failures.
C11_AttemptedAtLeastOnce ==
    (pc = "Completed" /\ sort_order = "desc")
    => \A id \in InRangeAtStart :
         /\ \E k \in 1..Len(YieldedIds) : YieldedIds[k] = id
         /\ \E k \in 1..Len(calls) : calls[k].id = id

\* A run completed over three messages in range, two per page, after a
\* failed call and a skipped page.
C11_Witness ==
    /\ pc = "Completed" /\ sort_order = "desc"
    /\ Cardinality(InRangeAtStart) = 3
    /\ page_size = 2
    /\ failed_count >= 1
    /\ offset > 0

\* C12: default_sleep is taken before every HTTP attempt of a call, the
\* retries after a 429 included.
C12_DefaultSleepBeforeEveryAttempt ==
    [][AttemptMade => \E k \in 1..Len(before) : before[k] = EvDefaultSleep]_vars

\* C13: an attempt answered with 400, 401, 403, 404, 405, 502 or any 5xx,
\* be it the first or one after responses 429, ends the call with the error
\* for that status and no further attempt of that request; an attempt
\* answered with any other status than those and 429 returns that response.
C13_TerminalNotRetried ==
    /\ [][(AttemptMade /\ (res'.status \in {400, 401, 403, 404, 405, 502}
                             \/ res'.status \in 500..599))
            => (ret' = "raise" /\ pc' = "returned" /\ i' = i /\ ~critical')]_vars
    /\ [][(AttemptMade /\ res'.status \notin {400, 401, 403, 404, 405, 502, 429}
                        /\ res'.status \notin 500..599)
            => (ret' = "res" /\ pc' = "returned" /\ i' = i /\ ~critical')]_vars
    /\ [][pc = "returned" => ~AttemptMade]_vars
    /\ [](ret = "raise" => (res.status \in {400, 401, 403, 404, 405, 502}
                             \/ res.status \in 500..599))

\* A call failed on a 5xx status that followed two responses 429.
C13_Witness ==
    /\ pc = "returned" /\ ret = "raise"
    /\ res.status = 500 /\ i = 2 /\ attempts = 3

\* C14: when the first search page has zero hits the paginator yields
\* nothing and the run completes at once with no replace and no delete
\* request, total_results_size = 0 and failed_count = 0.
C14_EmptyHistory ==
    /\ [][(pc = "returned" /\ req.kind = "search" /\ ret = "res"
             /\ offset = 0 /\ yields = <<>> /\ Len(res.page) = 0)
            => pc' = "Completed"]_vars
    /\ [](initial_messages = {}
            => /\ yields = <<>> /\ calls = <<>>
               /\ req.kind \in {"none", "search"}
               /\ total_results_size = 0 /\ failed_count = 0
               /\ offset = 0
               /\ pc = "Completed" => summary.kind = "no_messages")

\* The run completed on an empty first page.
C14_Witness ==
    /\ pc = "Completed"
    /\ initial_messages = {}
    /\ ret = "res" /\ res.page = <<>>

\* C15: called with oldest_message_id > newest_message_id the paginator
\* yields no batch whatever the server holds, so no replace or delete call is
\* made; every page either ends the sweep or advances the offset, which stays
\* within the number of messages, so the sweep ends.
C15_InvertedBoundsYieldNothing ==
    /\ [](arg_oldest > arg_newest
            => /\ yields = <<>> /\ calls = <<>>
               /\ req.kind \in {"none", "search"}
               /\ total_results_size = 0
               /\ offset <= Cardinality(initial_messages))
    /\ [][(arg_oldest > arg_newest /\ pc = "returned" /\ ret = "res")
            => (pc' = "Completed" \/ offset' > offset)]_vars

\* The run completed with inverted bounds on a server that holds a message
\* at each bound and one above, after skipped pages.
C15_Witness ==
    /\ pc = "Completed"
    /\ arg_oldest > arg_newest
    /\ {arg_oldest, arg_newest} \subseteq initial_messages
    /\ offset >= 2

\* A call that ends the handling of its message: a delete, or a failed replace.
EndsMessage(c) == c.op = "delete" \/ ~c.ok

\* The IDs of the messages whose handling has ended, in order.
HandledIds ==
    LET ended == SelectSeq(calls, EndsMessage)
    IN [k \in 1..Len(ended) |-> ended[k].id]

\* The position, among all yielded messages, of the message being handled.
CurrentPosition == Len(YieldedIds) - Len(messages) + idx

\* C16: calls never overlap and follow the order of the yields: a request
\* begins only when no other is in progress; while a search request is in
\* progress every message of every batch yielded so far has had its replace
\* (if requested) and delete calls returned; while a replace or delete is in
\* progress exactly the messages yielded before its message have been
\* handled, each by its replace directly followed by its delete.
C16_CallsStrictlyOrdered ==
    /\ [][RequestBegins => pc \in {"Idle", "returned"}]_vars
    /\ [][AttemptMade => (pc = "http" /\ req' = req)]_vars
    /\ [](/\ HandledIds = SubSeq(YieldedIds, 1, Len(HandledIds))
          /\ req.kind \in {"none", "search"} => Len(HandledIds) = Len(YieldedIds)
          /\ req.kind \in {"patch", "delete"}
                => /\ Len(HandledIds) = CurrentPosition - 1
                   /\ req.id = YieldedIds[CurrentPosition]
                   /\ req.id = messages[idx]
          /\ \A k \in 1..Len(calls) :
                IF replace_before_delete = "none"
                THEN calls[k].op = "delete"
                ELSE /\ calls[k].op = "delete"
                          => (k > 1 /\ calls[k - 1].op = "patch" /\ calls[k - 1].ok
                              /\ calls[k - 1].id = calls[k].id)
                     /\ (calls[k].op = "patch" /\ k > 1) => EndsMessage(calls[k - 1])
          /\ (req.kind = "delete" /\ replace_before_delete # "none")
                => (calls # <<>> /\ Last(calls) = [op |-> "patch", id |-> req.id, ok |-> TRUE])
          /\ (req.kind \in {"patch", "search"} /\ calls # <<>>) => EndsMessage(Last(calls)))

\* A second search request is in progress after a batch of two messages was
\* replaced and deleted.
C16_Witness ==
    /\ req.kind = "search" /\ pc = "http"
    /\ replace_before_delete # "none"
    /\ Len(yields) = 1 /\ Len(yields[1].batch) = 2
    /\ Len(calls) = 4

\* The number of returned calls of an operation for a message ID.
CallCount(op, id) == Cardinality({k \in 1..Len(calls) : calls[k].op = op /\ calls[k].id = id})

\* C17: with hits in descending order no message ID is yielded twice in a
\* run, so at most one replace call and one delete call are made per ID, also
\* for a message whose replace or delete failed and which the server still
\* returns.
C17_NoSecondAttempt ==
    sort_order = "desc"
    => /\ \A k \in 1..Len(YieldedIds) : \A n \in 1..Len(YieldedIds) :
             YieldedIds[k] = YieldedIds[n] => k = n
       /\ \A id \in Ids : CallCount("patch", id) <= 1 /\ CallCount("delete", id) <= 1

\* A later batch was yielded while a message whose call failed is still on
\* the server.
C17_Witness ==
    /\ sort_order = "desc"
    /\ Len(yields) >= 2
    /\ \E k \in 1..Len(calls) :
          /\ ~calls[k].ok
          /\ calls[k].id \in server_messages
          /\ calls[k].id > newest_message_id

\* C18: a page that does not end the sweep and has no hit in
\* [oldest_message_id, newest_message_id] yields nothing and advances offset
\* by its number of hits; a page that yields a batch leaves offset as it is;
\* no batch is empty; offset never decreases and oldest_message_id never
\* changes.
C18_CursorStepping ==
    /\ [][(/\ pc = "returned" /\ req.kind = "search" /\ ret = "res"
            /\ Len(res.page) > 0 /\ res.page[1] >= oldest_message_id
            /\ \A j \in 1..Len(res.page) :
                  res.page[j] < oldest_message_id \/ res.page[j] > newest_message_id)
            => /\ yields' = yields
               /\ offset' = offset + Len(res.page)
               /\ newest_message_id' = newest_message_id
               /\ RequestBegins /\ req'.kind = "search"]_vars
    /\ [][Len(yields') = Len(yields) + 1
            => /\ offset' = offset
               /\ Len(Last(yields').batch) >= 1
               /\ newest_message_id' = newest_message_id]_vars
    /\ [][offset' >= offset /\ oldest_message_id' = oldest_message_id
           /\ newest_message_id' <= newest_message_id]_vars
    /\ [](oldest_message_id = arg_oldest)

\* A batch was yielded after a page of two hits was skipped.
C18_Witness ==
    /\ page_size = 2
    /\ offset = 2
    /\ Len(yields) >= 1

\* C19: a completed run that handled at least one message reports the ID of
\* the first handled message as newest and that of the last handled message
\* as oldest, both inside the caller's bounds; with hits in descending order
\* they are the largest and the smallest handled ID, so oldest <= newest.
C19_SummaryRange ==
    (pc = "Completed" /\ YieldedIds # <<>>)
    => /\ summary.kind = "done"
       /\ summary.newest = YieldedIds[1]
       /\ summary.oldest = Last(YieldedIds)
       /\ arg_oldest <= summary.oldest /\ summary.oldest <= arg_newest
       /\ arg_oldest <= summary.newest /\ summary.newest <= arg_newest
       /\ sort_order = "desc"
            => /\ \A k \in 1..Len(YieldedIds) :
                     summary.oldest <= YieldedIds[k] /\ YieldedIds[k] <= summary.newest
               /\ summary.oldest <= summary.newest

\* A run over two batches completed with a range of more than one ID.
C19_Witness ==
    /\ pc = "Completed" /\ sort_order = "desc"
    /\ Len(yields) >= 2
    /\ summary.kind = "done"
    /\ summary.oldest < summary.newest

FailedCalls == {k \in 1..Len(calls) : ~calls[k].ok}

SuccessfulDeletes == {k \in 1..Len(calls) : calls[k].op = "delete" /\ calls[k].ok}

\* C20: failed_count is the number of calls that returned failure, at most
\* one per handled message, and 0 <= failed_count <= total_results_size; once
\* a batch is fully handled, total_results_size - failed_count, the number
\* reported as deleted, is the number of delete calls that returned success.
C20_FailureAccounting ==
    /\ failed_count = Cardinality(FailedCalls)
    /\ 0 <= failed_count /\ failed_count <= total_results_size
    /\ total_results_size = Len(YieldedIds)
    /\ \A k \in FailedCalls : EndsMessage(calls[k])
    /\ \A k \in 1..Len(calls) :
          (calls[k].op = "delete" /\ k > 1 /\ calls[k - 1].id = calls[k].id
             /\ calls[k - 1].op = "patch") => calls[k - 1].ok
    /\ req.kind \in {"none", "search"}
          => total_results_size - failed_count = Cardinality(SuccessfulDeletes)
    /\ (pc = "Completed" /\ summary.kind = "done")
          => /\ summary.deleted = Cardinality(SuccessfulDeletes)
             /\ summary.failed = Cardinality(FailedCalls)

\* A run completed with a failed replace, a failed delete and a successful
\* delete.
C20_Witness ==
    /\ pc = "Completed"
    /\ \E k \in FailedCalls : calls[k].op = "patch"
    /\ \E k \in FailedCalls : calls[k].op = "delete"
    /\ SuccessfulDeletes # {}

====
